---- MODULE Spec2Model ----
(***************************************************************************)
(* Phone-number OTP sign-in: the PhoneAuth component                       *)
(* (src/src/components/PhoneAuth.js) under the App session listener        *)
(* (src/unnamed/part_000).  React state, the window.recaptchaVerifier      *)
(* global, and the suspended async handlers (sendOtp, verifyOtp, signOut)  *)
(* are the state; every event handler and every resumption of a suspended  *)
(* handler is one action.  Text is a sequence of one-character strings.    *)
(***************************************************************************)
EXTENDS Naturals, Sequences, FiniteSets, Bags, TLC

VARIABLES
    phoneNumber,         \* useState('')   PhoneAuth.js:6
    otp,                 \* useState('')   PhoneAuth.js:7
    confirmationResult,  \* useState(null) PhoneAuth.js:8
    user,                \* useState(null) PhoneAuth.js:9
    loading,             \* useState(false) PhoneAuth.js:10
    error,               \* useState('')   PhoneAuth.js:11
    recaptchaVerifier,   \* window.recaptchaVerifier
    liveChallenges,      \* RecaptchaVerifier objects constructed and not yet clear()ed
    ops,                 \* bag of suspended async handlers (awaits in flight)
    appUser,             \* App: useState(null)  part_000:7
    appLoading,          \* App: useState(true)  part_000:8
    unmounted,           \* the App tree has been torn down
    last                 \* history: the last handler step, the handle and the
                         \* error it involved, and the stored or awaited handles
                         \* passed to confirm so far (used) and confirmed (done),
                         \* and whether the step passed one of them again

rs == <<phoneNumber, otp, confirmationResult, user, loading, error>>

app == <<appUser, appLoading, unmounted>>

vars == <<phoneNumber, otp, confirmationResult, user, loading, error,
          recaptchaVerifier, liveChallenges, ops,
          appUser, appLoading, unmounted, last>>

NULL == [null |-> TRUE]

EmptyStr == <<>>

(***************************************************************************)
(* Bounds of the model.                                                    *)
(***************************************************************************)
MaxInFlight == 2

(***************************************************************************)
(* Text helpers.                                                           *)
(***************************************************************************)
Digits == {"0", "1", "2", "3", "4", "5", "6", "7", "8", "9"}

NonZeroDigits == Digits \ {"0"}

Whitespace == {" "}

Rep(c, n) == [i \in 1..n |-> c]

RECURSIVE trimStart(_)
trimStart(s) ==
    IF s # <<>> /\ Head(s) \in Whitespace THEN trimStart(Tail(s)) ELSE s

RECURSIVE trimEnd(_)
trimEnd(s) ==
    IF s # <<>> /\ s[Len(s)] \in Whitespace
    THEN trimEnd(SubSeq(s, 1, Len(s) - 1))
    ELSE s

\* String.prototype.trim
trim(s) == trimEnd(trimStart(s))

RECURSIVE stripNonDigits(_)
\* value.replace(/\D/g, '')
stripNonDigits(s) ==
    IF s = <<>> THEN <<>>
    ELSE IF Head(s) \in Digits THEN <<Head(s)>> \o stripNonDigits(Tail(s))
    ELSE stripNonDigits(Tail(s))

MinMoreDigits == 1

MaxMoreDigits == 14

validatePhoneNumberNoPlus(phone) ==
    /\ Len(phone) >= 1
    /\ phone[1] \in NonZeroDigits
    /\ Len(phone) - 1 \in MinMoreDigits..MaxMoreDigits
    /\ \A i \in 2..Len(phone) : phone[i] \in Digits

\* /^\+[1-9]\d{1,14}$/.test(phone)
validatePhoneNumber(phone) ==
    /\ Len(phone) >= 2
    /\ phone[1] = "+"
    /\ phone[2] \in NonZeroDigits
    /\ Len(phone) - 2 \in MinMoreDigits..MaxMoreDigits
    /\ \A i \in 3..Len(phone) : phone[i] \in Digits

OtpLength == 6

OtpMaxLength == 6


(***************************************************************************)
(* Inputs the user can put into the two text fields, and the errors the    *)
(* identity provider can answer with.                                      *)
(***************************************************************************)
PhoneInputs ==
    { <<>>,
      <<" ">>,
      <<"5", "5", "5", "1", "2", "3", "4">>,
      <<"+", "1">>,
      <<"+", "0", "1">>,
      <<"+", "1", "a">>,
      <<" ", "+", "1", "0">>,
      <<"+", "1", "0">>,
      <<"+", "1">> \o Rep("0", MaxMoreDigits + 1) }

CodeInputs ==
    { <<>>,
      Rep("1", OtpLength),
      <<"1", "2", "a", "4", "5", "6">>,
      Rep("1", OtpLength + 1) }

RawMessage == "raw provider message"

SendErrors ==
    { [code |-> c, message |-> RawMessage] :
        c \in { "auth/invalid-phone-number", "auth/missing-phone-number",
                "auth/quota-exceeded", "auth/user-disabled",
                "auth/operation-not-allowed", "auth/too-many-requests",
                "auth/internal-error" } }
    \cup { [code |-> "auth/internal-error", message |-> ""] }

ConfirmErrors ==
    { [code |-> c, message |-> RawMessage] :
        c \in { "auth/invalid-verification-code", "auth/code-expired",
                "auth/internal-error" } }

ExistingSession == [phoneNumber |-> <<"+", "1", "0">>]

\* what the provider's auth-state stream can deliver to the listener
SessionEmissions == {NULL, ExistingSession}

(***************************************************************************)
(* Messages set by the handlers.                                           *)
(***************************************************************************)
MsgEnterPhone == "Please enter a phone number"

MsgInvalidPhone == "Please enter a valid phone number with country code (e.g., +1234567890)"

MsgEnterOtp == "Please enter the OTP"

MsgOtpLength == "Please enter a 6-digit OTP"

MsgNoConfirmation == "No confirmation result available. Please request OTP again."

MsgRecaptchaExpired == "reCAPTCHA expired. Please try again."

MsgSetupFailed == "reCAPTCHA setup failed. Please refresh the page."

MsgNotInitialized == "reCAPTCHA not initialized"

MsgSignOutFailed == "Failed to sign out"

\* what the RecaptchaVerifier constructor throws
SetupError == [code |-> "", message |-> "constructor error"]

\* the catch block of sendOtp
sendErrorMessage(err) ==
    IF err.code = "auth/invalid-phone-number" THEN "Invalid phone number format"
    ELSE IF err.code = "auth/missing-phone-number" THEN "Phone number is required"
    ELSE IF err.code = "auth/quota-exceeded" THEN "SMS quota exceeded. Please try again later"
    ELSE IF err.code = "auth/user-disabled" THEN "This phone number has been disabled"
    ELSE IF err.code = "auth/operation-not-allowed" THEN "Phone authentication is not enabled"
    ELSE IF err.code = "auth/too-many-requests" THEN "Too many requests. Please try again later"
    ELSE IF err.message # "" THEN err.message
    ELSE "Failed to send OTP. Please try again."

\* the catch block of verifyOtp
verifyErrorMessage(err) ==
    IF err.code = "auth/invalid-verification-code" THEN "Invalid OTP. Please check and try again."
    ELSE IF err.code = "auth/code-expired" THEN "OTP has expired. Please request a new one."
    ELSE "Invalid OTP. Please try again."

(***************************************************************************)
(* What is rendered.                                                       *)
(***************************************************************************)
\* App renders <PhoneAuth /> once its loading flag is cleared
Mounted == ~appLoading /\ ~unmounted

AuthViewShown == Mounted /\ user # NULL

PhoneFormShown == Mounted /\ user = NULL /\ confirmationResult = NULL

CodeFormShownIgnoringUser == Mounted /\ confirmationResult # NULL

CodeFormShown == Mounted /\ user = NULL /\ confirmationResult # NULL

\* the five states of the flow, read off the rendered view and the loading flag
State ==
    IF user # NULL THEN "Authenticated"
    ELSE IF confirmationResult # NULL
         THEN (IF loading THEN "Verifying" ELSE "AwaitingCode")
         ELSE (IF loading THEN "Sending" ELSE "Idle")

Op(kind, phone, h, code) ==
    [kind |-> kind, phone |-> phone, h |-> h, code |-> code]

One(op) == SetToBag({op})

InFlight == BagCardinality(ops)

\* the handles of S that the component state or a suspended handler still holds
Kept(S) ==
    {x \in S : \/ x = confirmationResult
                \/ \E op \in BagToSet(ops) : op.h = x}

Record(ev, h, err, submitted, confirmed) ==
    last' = [ev |-> ev, h |-> h, err |-> err,
             again |-> (submitted \cap last.used) # {},
             used |-> Kept(last.used) \cup submitted,
             done |-> Kept(last.done) \cup confirmed]

Step(ev, h) == Record(ev, h, NULL, {}, {})

\* the objects the program or a suspended handler still refers to
Referenced ==
    {recaptchaVerifier, confirmationResult, last.h}
        \cup liveChallenges \cup {op.h : op \in BagToSet(ops)}

Ids == 1..(MaxInFlight + 3)

\* new RecaptchaVerifier(...): an object distinct from every one still referred to
FreshChallenge ==
    [ch |-> CHOOSE n \in Ids :
                /\ [ch |-> n] \notin Referenced
                /\ \A m \in 1..(n - 1) : [ch |-> m] \in Referenced]

\* the id of the ConfirmationResult a resolved signInWithPhoneNumber returns
FreshConfirmationId ==
    CHOOSE n \in Ids :
        /\ n \notin {r.id : r \in {x \in Referenced : "id" \in DOMAIN x}}
        /\ \A m \in 1..(n - 1) :
               m \in {r.id : r \in {x \in Referenced : "id" \in DOMAIN x}}

Init ==
    /\ phoneNumber = EmptyStr
    /\ otp = EmptyStr
    /\ confirmationResult = NULL
    /\ user = NULL
    /\ loading = FALSE
    /\ error = ""
    /\ recaptchaVerifier = NULL
    /\ liveChallenges = {}
    /\ ops = EmptyBag
    /\ appUser = NULL
    /\ appLoading = TRUE
    /\ unmounted = FALSE
    /\ last = [ev |-> "init", h |-> NULL, err |-> NULL, again |-> FALSE,
               used |-> {}, done |-> {}]


(***************************************************************************)
(* App: the session listener.                                              *)
(***************************************************************************)
AuthStateChangedKeepsLoading(u) ==
    /\ ~unmounted
    /\ appUser' = u
    /\ appLoading' = appLoading
    /\ Step("authStateChanged", NULL)
    /\ UNCHANGED <<rs, recaptchaVerifier, liveChallenges, ops, unmounted>>

\* onAuthStateChanged callback, the stream emitting u:
\* setUser(user); setLoading(false)
AuthStateChanged(u) ==
    /\ ~unmounted
    /\ appUser' = u
    /\ appLoading' = FALSE
    /\ Step("authStateChanged", NULL)
    /\ UNCHANGED <<rs, recaptchaVerifier, liveChallenges, ops, unmounted>>

\* teardown of the tree: App unsubscribes, PhoneAuth's effect cleanup runs
Unmount ==
    /\ ~unmounted
    /\ unmounted' = TRUE
    /\ IF ~appLoading /\ recaptchaVerifier # NULL
       THEN /\ liveChallenges' = liveChallenges \ {recaptchaVerifier}
            /\ recaptchaVerifier' = NULL
       ELSE UNCHANGED <<recaptchaVerifier, liveChallenges>>
    /\ Step("unmount", NULL)
    /\ UNCHANGED <<rs, ops, appUser, appLoading>>

(***************************************************************************)
(* PhoneAuth: text fields.                                                 *)
(***************************************************************************)
\* onChange of the phone field (disabled while loading)
ChangePhone(p) ==
    /\ PhoneFormShown
    /\ ~loading
    /\ phoneNumber' = p
    /\ Step("changePhone", NULL)
    /\ UNCHANGED <<otp, confirmationResult, user, loading, error,
                   recaptchaVerifier, liveChallenges, ops, app>>

otpOnChangeUnfiltered(raw) ==
    /\ otp' = raw
    /\ Step("changeOtp", NULL)
    /\ UNCHANGED <<phoneNumber, confirmationResult, user, loading, error,
                   recaptchaVerifier, liveChallenges, ops, app>>

\* onChange of the code field: setOtp(e.target.value.replace(/\D/g, ''))
otpOnChange(raw) ==
    /\ otp' = stripNonDigits(raw)
    /\ Step("changeOtp", NULL)
    /\ UNCHANGED <<phoneNumber, confirmationResult, user, loading, error,
                   recaptchaVerifier, liveChallenges, ops, app>>

\* the code field as rendered: disabled while loading, maxLength="6"
ChangeOtp(raw) ==
    /\ CodeFormShown
    /\ ~loading
    /\ Len(raw) <= OtpMaxLength
    /\ otpOnChange(raw)

(***************************************************************************)
(* PhoneAuth: setupRecaptcha, on the window global rv and the set of live  *)
(* verifiers; n names the verifier the constructor would build, throws     *)
(* says whether the constructor throws.                                    *)
(***************************************************************************)
setupRecaptchaNoClear(rv, live, n, throws) ==
    IF throws
    THEN [rv |-> rv, live |-> live, failed |-> TRUE]
    ELSE [rv |-> n, live |-> live \cup {n}, failed |-> FALSE]

setupRecaptcha(rv, live, n, throws) ==
    LET cleared == IF rv # NULL THEN live \ {rv} ELSE live
    IN  IF throws
        THEN [rv |-> rv, live |-> cleared, failed |-> TRUE]
        ELSE [rv |-> n, live |-> cleared \cup {n}, failed |-> FALSE]

(***************************************************************************)
(* PhoneAuth: sendOtp.                                                     *)
(***************************************************************************)
\* sendOtp up to its first await
sendOtp ==
    IF trim(phoneNumber) = EmptyStr
    THEN /\ error' = MsgEnterPhone
         /\ UNCHANGED <<phoneNumber, otp, confirmationResult, user, loading,
                        ops>>
    ELSE IF ~validatePhoneNumber(phoneNumber)
    THEN /\ error' = MsgInvalidPhone
         /\ UNCHANGED <<phoneNumber, otp, confirmationResult, user, loading,
                        ops>>
    ELSE /\ InFlight < MaxInFlight
         /\ loading' = TRUE
         /\ error' = ""
         /\ ops' = ops (+) One(Op("delay", phoneNumber, NULL, EmptyStr))
         /\ UNCHANGED <<phoneNumber, otp, confirmationResult, user>>

\* the Send OTP button: disabled={loading || !phoneNumber.trim()}
ClickSendOtp ==
    /\ PhoneFormShown
    /\ ~loading
    /\ trim(phoneNumber) # EmptyStr
    /\ sendOtp
    /\ Step("sendOtp", NULL)
    /\ UNCHANGED <<recaptchaVerifier, liveChallenges, app>>

\* sendOtp resumed after the 100 ms timer: setupRecaptcha, then either the
\* throw of 'reCAPTCHA not initialized' (caught below) or signInWithPhoneNumber
SendAfterDelay(op, throws) ==
    /\ BagIn(op, ops)
    /\ op.kind = "delay"
    /\ LET s == setupRecaptcha(recaptchaVerifier, liveChallenges,
                               FreshChallenge, throws)
       IN  /\ recaptchaVerifier' = s.rv
           /\ liveChallenges' = s.live
           /\ IF s.rv = NULL
              THEN /\ ops' = ops (-) One(op)
                   /\ IF Mounted
                      THEN /\ error' = sendErrorMessage(
                                          [code |-> "", message |-> MsgNotInitialized])
                           /\ loading' = FALSE
                      ELSE UNCHANGED <<error, loading>>
                   /\ Record("setupThrew", NULL, SetupError, {}, {})
              ELSE /\ ops' = (ops (-) One(op))
                               (+) One(Op("request", op.phone, s.rv, EmptyStr))
                   /\ IF Mounted /\ s.failed
                      THEN error' = MsgSetupFailed
                      ELSE UNCHANGED error
                   /\ UNCHANGED loading
                   /\ Record("requestCode", s.rv,
                             IF s.failed THEN SetupError ELSE NULL, {}, {})
    /\ UNCHANGED <<phoneNumber, otp, confirmationResult, user, app>>

\* signInWithPhoneNumber resolved
RequestCodeOk(op) ==
    /\ BagIn(op, ops)
    /\ op.kind = "request"
    /\ ops' = ops (-) One(op)
    /\ LET confirmation == [id |-> FreshConfirmationId, phone |-> op.phone]
       IN  /\ IF Mounted
              THEN /\ confirmationResult' = confirmation
                   /\ error' = ""
                   /\ loading' = FALSE
              ELSE UNCHANGED <<confirmationResult, error, loading>>
           /\ Step("requestCodeOk", confirmation)
    /\ UNCHANGED <<phoneNumber, otp, user, recaptchaVerifier, liveChallenges, app>>

\* signInWithPhoneNumber rejected with err
RequestCodeFail(op, err) ==
    /\ BagIn(op, ops)
    /\ op.kind = "request"
    /\ ops' = ops (-) One(op)
    /\ IF Mounted
       THEN /\ error' = sendErrorMessage(err)
            /\ loading' = FALSE
       ELSE UNCHANGED <<error, loading>>
    /\ IF recaptchaVerifier # NULL
       THEN /\ liveChallenges' = liveChallenges \ {recaptchaVerifier}
            /\ recaptchaVerifier' = NULL
       ELSE UNCHANGED <<recaptchaVerifier, liveChallenges>>
    /\ Record("requestCodeFail", NULL, err, {}, {})
    /\ UNCHANGED <<phoneNumber, otp, confirmationResult, user, app>>


(***************************************************************************)
(* PhoneAuth: verifyOtp.                                                   *)
(***************************************************************************)
verifyOtpNoLengthCheck ==
    IF trim(otp) = EmptyStr
    THEN /\ error' = MsgEnterOtp
         /\ UNCHANGED <<phoneNumber, otp, confirmationResult, user, loading, ops>>
    ELSE IF confirmationResult = NULL
    THEN /\ error' = MsgNoConfirmation
         /\ UNCHANGED <<phoneNumber, otp, confirmationResult, user, loading, ops>>
    ELSE /\ InFlight < MaxInFlight
         /\ loading' = TRUE
         /\ error' = ""
         /\ ops' = ops (+) One(Op("confirm", EmptyStr, confirmationResult, otp))
         /\ UNCHANGED <<phoneNumber, otp, confirmationResult, user>>

\* verifyOtp up to its await
verifyOtp ==
    IF trim(otp) = EmptyStr
    THEN /\ error' = MsgEnterOtp
         /\ UNCHANGED <<phoneNumber, otp, confirmationResult, user, loading, ops>>
    ELSE IF Len(otp) # OtpLength
    THEN /\ error' = MsgOtpLength
         /\ UNCHANGED <<phoneNumber, otp, confirmationResult, user, loading, ops>>
    ELSE IF confirmationResult = NULL
    THEN /\ error' = MsgNoConfirmation
         /\ UNCHANGED <<phoneNumber, otp, confirmationResult, user, loading, ops>>
    ELSE /\ InFlight < MaxInFlight
         /\ loading' = TRUE
         /\ error' = ""
         /\ ops' = ops (+) One(Op("confirm", EmptyStr, confirmationResult, otp))
         /\ UNCHANGED <<phoneNumber, otp, confirmationResult, user>>

\* the Verify OTP button: disabled={loading || otp.length !== 6}
ClickVerifyOtp ==
    /\ CodeFormShown
    /\ ~loading
    /\ Len(otp) = OtpLength
    /\ verifyOtp
    /\ Record("verifyOtp", confirmationResult, NULL,
              IF ops' # ops THEN {confirmationResult} ELSE {}, {})
    /\ UNCHANGED <<recaptchaVerifier, liveChallenges, app>>

\* confirmationResult.confirm(otp) resolved: setUser(result.user)
ConfirmOk(op) ==
    /\ BagIn(op, ops)
    /\ op.kind = "confirm"
    /\ ops' = ops (-) One(op)
    /\ LET session == [phoneNumber |-> op.h.phone]
       IN  /\ IF Mounted
              THEN /\ user' = session
                   /\ loading' = FALSE
              ELSE UNCHANGED <<user, loading>>
    /\ Record("confirmOk", op.h, NULL, {}, {op.h})
    /\ UNCHANGED <<phoneNumber, otp, confirmationResult, error,
                   recaptchaVerifier, liveChallenges, app>>

\* confirmationResult.confirm(otp) rejected with err
ConfirmFail(op, err) ==
    /\ BagIn(op, ops)
    /\ op.kind = "confirm"
    /\ ops' = ops (-) One(op)
    /\ IF Mounted
       THEN /\ error' = verifyErrorMessage(err)
            /\ loading' = FALSE
       ELSE UNCHANGED <<error, loading>>
    /\ Record("confirmFail", op.h, err, {}, {})
    /\ UNCHANGED <<phoneNumber, otp, confirmationResult, user,
                   recaptchaVerifier, liveChallenges, app>>

(***************************************************************************)
(* PhoneAuth: resetStates and signOut.                                     *)
(***************************************************************************)
resetStatesKeepHandles ==
    /\ IF Mounted
       THEN /\ phoneNumber' = EmptyStr
            /\ otp' = EmptyStr
            /\ error' = ""
            /\ loading' = FALSE
            /\ UNCHANGED confirmationResult
       ELSE UNCHANGED <<confirmationResult, phoneNumber, otp, error, loading>>
    /\ UNCHANGED <<recaptchaVerifier, liveChallenges>>

resetStates ==
    /\ IF Mounted
       THEN /\ confirmationResult' = NULL
            /\ phoneNumber' = EmptyStr
            /\ otp' = EmptyStr
            /\ error' = ""
            /\ loading' = FALSE
       ELSE UNCHANGED <<confirmationResult, phoneNumber, otp, error, loading>>
    /\ IF recaptchaVerifier # NULL
       THEN /\ liveChallenges' = liveChallenges \ {recaptchaVerifier}
            /\ recaptchaVerifier' = NULL
       ELSE UNCHANGED <<recaptchaVerifier, liveChallenges>>

\* the Change Phone Number button: disabled={loading}
ClickReset ==
    /\ CodeFormShown
    /\ ~loading
    /\ resetStates
    /\ Step("resetStates", NULL)
    /\ UNCHANGED <<user, ops, app>>

\* signOut up to its await; the Sign Out button is never disabled
ClickSignOut ==
    /\ AuthViewShown
    /\ InFlight < MaxInFlight
    /\ ops' = ops (+) One(Op("signOut", EmptyStr, NULL, EmptyStr))
    /\ Step("signOut", NULL)
    /\ UNCHANGED <<rs, recaptchaVerifier, liveChallenges, app>>

\* auth.signOut() resolved: setUser(null); resetStates()
SignOutOk(op) ==
    /\ BagIn(op, ops)
    /\ op.kind = "signOut"
    /\ ops' = ops (-) One(op)
    /\ IF Mounted THEN user' = NULL ELSE UNCHANGED user
    /\ resetStates
    /\ Step("signOutOk", NULL)
    /\ UNCHANGED app

\* auth.signOut() rejected
SignOutFail(op) ==
    /\ BagIn(op, ops)
    /\ op.kind = "signOut"
    /\ ops' = ops (-) One(op)
    /\ IF Mounted THEN error' = MsgSignOutFailed ELSE UNCHANGED error
    /\ Step("signOutFail", NULL)
    /\ UNCHANGED <<phoneNumber, otp, confirmationResult, user, loading,
                   recaptchaVerifier, liveChallenges, app>>

\* the verifier's 'expired-callback'
RecaptchaExpired ==
    /\ Mounted
    /\ liveChallenges # {}
    /\ error' = MsgRecaptchaExpired
    /\ Step("recaptchaExpired", NULL)
    /\ UNCHANGED <<phoneNumber, otp, confirmationResult, user, loading,
                   recaptchaVerifier, liveChallenges, ops, app>>

(***************************************************************************)
(* The handlers run on the rendered form without the attributes that keep  *)
(* the controls from firing on bad input (disabled on an empty number or a *)
(* short code, maxLength, the form a control belongs to).                  *)
(***************************************************************************)
FormShown == Mounted /\ user = NULL /\ ~loading

CallSendOtp ==
    /\ FormShown
    /\ sendOtp
    /\ Step("sendOtp", NULL)
    /\ UNCHANGED <<recaptchaVerifier, liveChallenges, app>>

CallVerifyOtp ==
    /\ FormShown
    /\ verifyOtp
    /\ Record("verifyOtp", confirmationResult, NULL,
              IF ops' # ops THEN {confirmationResult} ELSE {}, {})
    /\ UNCHANGED <<recaptchaVerifier, liveChallenges, app>>

CallOtpOnChange(raw) ==
    /\ FormShown
    /\ otpOnChange(raw)

(***************************************************************************)
(* Specifications.                                                         *)
(***************************************************************************)
Next ==
    \/ \E u \in SessionEmissions : AuthStateChanged(u)
    \/ Unmount
    \/ \E p \in PhoneInputs : ChangePhone(p)
    \/ \E raw \in CodeInputs : ChangeOtp(raw)
    \/ ClickSendOtp
    \/ \E op \in BagToSet(ops), throws \in BOOLEAN : SendAfterDelay(op, throws)
    \/ \E op \in BagToSet(ops) : RequestCodeOk(op)
    \/ \E op \in BagToSet(ops), err \in SendErrors : RequestCodeFail(op, err)
    \/ ClickVerifyOtp
    \/ \E op \in BagToSet(ops) : ConfirmOk(op)
    \/ \E op \in BagToSet(ops), err \in ConfirmErrors : ConfirmFail(op, err)
    \/ ClickReset
    \/ ClickSignOut
    \/ \E op \in BagToSet(ops) : SignOutOk(op)
    \/ \E op \in BagToSet(ops) : SignOutFail(op)
    \/ RecaptchaExpired

Spec == Init /\ [][Next]_vars

\* the timer of the delay fires, and every call to the provider returns
Fairness ==
    /\ WF_vars(\E op \in BagToSet(ops), throws \in BOOLEAN :
                   SendAfterDelay(op, throws))
    /\ WF_vars(\E op \in BagToSet(ops) :
                   \/ RequestCodeOk(op)
                   \/ \E err \in SendErrors : RequestCodeFail(op, err))
    /\ WF_vars(\E op \in BagToSet(ops) :
                   \/ ConfirmOk(op)
                   \/ \E err \in ConfirmErrors : ConfirmFail(op, err))
    /\ WF_vars(\E op \in BagToSet(ops) : SignOutOk(op) \/ SignOutFail(op))

SpecFair == Spec /\ Fairness

NextHandlers ==
    \/ \E u \in SessionEmissions : AuthStateChanged(u)
    \/ \E p \in PhoneInputs : ChangePhone(p)
    \/ \E raw \in CodeInputs : CallOtpOnChange(raw)
    \/ CallSendOtp
    \/ \E op \in BagToSet(ops), throws \in BOOLEAN : SendAfterDelay(op, throws)
    \/ \E op \in BagToSet(ops) : RequestCodeOk(op)
    \/ \E op \in BagToSet(ops), err \in SendErrors : RequestCodeFail(op, err)
    \/ CallVerifyOtp
    \/ \E op \in BagToSet(ops) : ConfirmOk(op)
    \/ \E op \in BagToSet(ops), err \in ConfirmErrors : ConfirmFail(op, err)
    \/ ClickReset

SpecHandlers == Init /\ [][NextHandlers]_vars


(***************************************************************************)
(* Vocabulary of the claims.                                               *)
(***************************************************************************)
\* the phone-number format of the specification: + , a digit 1-9, then 1 to 14 digits
MatchesE164(s) ==
    \E k \in 1..14 :
        /\ Len(s) = k + 2
        /\ s[1] = "+"
        /\ s[2] \in {"1", "2", "3", "4", "5", "6", "7", "8", "9"}
        /\ \A i \in 3..(k + 2) : s[i] \in Digits

\* the external provider operations awaited at this moment
ExternalCalls ==
    {op \in BagToSet(ops) : op.kind \in {"request", "confirm", "signOut"}}

ExternalCallsInFlight ==
    LET F[S \in SUBSET ExternalCalls] ==
            IF S = {} THEN 0
            ELSE LET op == CHOOSE x \in S : TRUE
                 IN  CopiesIn(op, ops) + F[S \ {op}]
    IN  F[ExternalCalls]

\* C1: a submit of a phone number that does not match the format (empty and
\* blank ones included) leaves the flow where it was (Idle stays Idle), sets
\* an invalid-input message, and starts nothing: no handler is suspended, no
\* verifier is created, no field or handle changes.
C1_InvalidPhoneRejected ==
    [][ (last'.ev = "sendOtp" /\ ~MatchesE164(phoneNumber)) =>
          /\ error' \in {MsgEnterPhone, MsgInvalidPhone}
          /\ (State = "Idle" => State' = "Idle")
          /\ UNCHANGED <<phoneNumber, otp, confirmationResult, user, loading,
                         ops, recaptchaVerifier, liveChallenges>> ]_vars

C1_Witness ==
    /\ last.ev = "sendOtp"
    /\ phoneNumber = <<" ">>
    /\ error = MsgEnterPhone
    /\ State = "Idle"

\* C2: a submit of a code whose length is not 6, or with no confirmation
\* handle stored, leaves the flow where it was (AwaitingCode stays
\* AwaitingCode), sets an invalid-input message, and calls nothing.
C2_InvalidCodeRejected ==
    [][ (last'.ev = "verifyOtp" /\ (Len(otp) # 6 \/ confirmationResult = NULL)) =>
          /\ error' \in {MsgEnterOtp, MsgOtpLength, MsgNoConfirmation}
          /\ (State = "AwaitingCode" => State' = "AwaitingCode")
          /\ UNCHANGED <<phoneNumber, otp, confirmationResult, user, loading,
                         ops, recaptchaVerifier, liveChallenges>> ]_vars

C2_Witness ==
    /\ last.ev = "verifyOtp"
    /\ State = "AwaitingCode"
    /\ Len(otp) = 7
    /\ error = MsgOtpLength

C2_WitnessNoHandle ==
    /\ last.ev = "verifyOtp"
    /\ Len(otp) = 6
    /\ confirmationResult = NULL
    /\ error = MsgNoConfirmation

\* C3: whenever requestCode succeeds on the mounted component, the flow goes
\* from Sending to AwaitingCode, the handle returned by the call is the one
\* stored, the error message is empty and the in-progress flag is cleared.
C3_RequestCodeSuccess ==
    [][ (last'.ev = "requestCodeOk" /\ Mounted) =>
          /\ State = "Sending"
          /\ State' = "AwaitingCode"
          /\ confirmationResult' = last'.h
          /\ confirmationResult' # NULL
          /\ error' = ""
          /\ ~loading' ]_vars

\* C4: whenever requestCode fails on the mounted component, the flow is back
\* in Idle, no verifier is stored or live, no confirmation handle is stored,
\* and a non-empty error message is set.
C4_RequestCodeFailure ==
    [][ (last'.ev = "requestCodeFail" /\ Mounted) =>
          /\ State' = "Idle"
          /\ recaptchaVerifier' = NULL
          /\ liveChallenges' = {}
          /\ confirmationResult' = NULL
          /\ error' # "" ]_vars

\* C5: whenever confirmCode succeeds on the mounted component, the flow is
\* Authenticated, the session is stored, and no confirmation handle is held.
C5_ConfirmCodeSuccess ==
    [][ (last'.ev = "confirmOk" /\ Mounted) =>
          /\ State' = "Authenticated"
          /\ user' = [phoneNumber |-> last'.h.phone]
          /\ confirmationResult' = NULL ]_vars

\* C6: whenever confirmCode fails on the mounted component, the flow is back
\* in AwaitingCode holding the handle the call was made on, no session is
\* stored, an error message is set and submission is enabled again.
C6_ConfirmCodeFailure ==
    [][ (last'.ev = "confirmFail" /\ Mounted) =>
          /\ State' = "AwaitingCode"
          /\ confirmationResult' = last'.h
          /\ confirmationResult' = confirmationResult
          /\ user' = NULL
          /\ error' # ""
          /\ ~loading' ]_vars

\* C7: a stored session and a stored confirmation handle are never both present.
C7_SessionExcludesHandle ==
    ~(user # NULL /\ confirmationResult # NULL)

\* C8: at most one verifier is live and at most one confirmation handle is
\* held; the only verifier that can be live is the one stored in the global.
C8_AtMostOneHandle ==
    /\ Cardinality(liveChallenges) <= 1
    /\ liveChallenges \subseteq {recaptchaVerifier}
    /\ Cardinality({confirmationResult} \ {NULL}) <= 1

C8_Witness ==
    /\ last.ev = "requestCode"
    /\ liveChallenges = {recaptchaVerifier}
    /\ \E op \in BagToSet(ops) :
          op.kind = "request" /\ op.h # NULL /\ op.h \notin liveChallenges

\* C9: the Change Phone Number action ends with the phone number, the code
\* and the error message empty, no confirmation handle held, and the verifier
\* disposed and absent.
C9_ResetClears ==
    [][ last'.ev = "resetStates" =>
          /\ phoneNumber' = EmptyStr
          /\ otp' = EmptyStr
          /\ error' = ""
          /\ confirmationResult' = NULL
          /\ recaptchaVerifier' = NULL
          /\ liveChallenges' = {} ]_vars

C9_Witness ==
    /\ last.ev = "resetStates"
    /\ State = "Idle"
    /\ phoneNumber = EmptyStr
    /\ liveChallenges = {}

\* C10: at most one external provider operation (requestCode, confirmCode,
\* signOut) is awaited at any time.
C10_OneCallInFlight ==
    ExternalCallsInFlight <= 1

\* C11: the first emission of the session listener decides where the flow
\* starts: with an existing session the flow is Authenticated and the
\* authenticated view is rendered, with no session it is Idle and the phone
\* form is rendered.
C11_StartFollowsFirstEmission ==
    [][ (last'.ev = "authStateChanged" /\ appLoading) =>
          IF appUser' # NULL
          THEN State' = "Authenticated" /\ AuthViewShown'
          ELSE State' = "Idle" /\ PhoneFormShown' ]_vars

\* C12: Sign Out first calls the provider's sign-out and changes nothing else;
\* only its success clears the session and resets everything, ending in Idle;
\* when it fails the error is caught, nothing is reset and the flow stays
\* Authenticated with the session kept.
C12_SignOutOrder ==
    [][ /\ (last'.ev = "signOut" =>
              /\ UNCHANGED <<rs, recaptchaVerifier>>
              /\ \E op \in BagToSet(ops') : op.kind = "signOut")
        /\ ((user # NULL /\ user' = NULL) => last'.ev = "signOutOk")
        /\ ((last'.ev = "signOutOk" /\ Mounted) =>
              /\ user' = NULL
              /\ State' = "Idle"
              /\ phoneNumber' = EmptyStr /\ otp' = EmptyStr /\ error' = ""
              /\ recaptchaVerifier' = NULL)
        /\ ((last'.ev = "signOutFail" /\ Mounted) =>
              /\ State' = "Authenticated"
              /\ user' = user
              /\ error' = MsgSignOutFailed
              /\ UNCHANGED <<phoneNumber, otp, confirmationResult, loading,
                             recaptchaVerifier>>) ]_vars

\* the provider codes the taxonomy names for requestCode, with their categories
TaxonomyCategory(code) ==
    CASE code = "auth/invalid-phone-number" -> "InvalidPhoneNumber"
      [] code = "auth/quota-exceeded" -> "QuotaExceeded"
      [] code = "auth/user-disabled" -> "AccountDisabled"
      [] code = "auth/operation-not-allowed" -> "OperationNotAllowed"
      [] code = "auth/too-many-requests" -> "TooManyRequests"
      [] code = "auth/invalid-verification-code" -> "InvalidCode"
      [] code = "auth/code-expired" -> "CodeExpired"
      [] OTHER -> "Unknown"

ListedSendCodes ==
    { "auth/invalid-phone-number", "auth/quota-exceeded", "auth/user-disabled",
      "auth/operation-not-allowed", "auth/too-many-requests" }

\* the category a message shown to the user stands for
MessageCategory(msg) ==
    CASE msg = "Invalid phone number format" -> "InvalidPhoneNumber"
      [] msg = "SMS quota exceeded. Please try again later" -> "QuotaExceeded"
      [] msg = "This phone number has been disabled" -> "AccountDisabled"
      [] msg = "Phone authentication is not enabled" -> "OperationNotAllowed"
      [] msg = "Too many requests. Please try again later" -> "TooManyRequests"
      [] msg = "Invalid OTP. Please check and try again." -> "InvalidCode"
      [] msg = "OTP has expired. Please request a new one." -> "CodeExpired"
      [] msg \in {MsgSetupFailed, MsgNotInitialized} -> "ChallengeSetupFailed"
      [] OTHER -> "Unknown"

\* C13: a requestCode failure with a listed provider code shows the message
\* of that code's category, distinct listed codes show distinct messages, and
\* in every case the flow is Idle afterwards.
C13_SendErrorTaxonomy ==
    [][ (last'.ev = "requestCodeFail" /\ Mounted) =>
          /\ State' = "Idle"
          /\ last'.err.code \in ListedSendCodes =>
                /\ MessageCategory(error') = TaxonomyCategory(last'.err.code)
                /\ \A c \in ListedSendCodes \ {last'.err.code} :
                       error' # sendErrorMessage([code |-> c, message |-> RawMessage])
      ]_vars

\* the mapping half of C13 alone
C13_MappingOnly ==
    [][ (last'.ev = "requestCodeFail" /\ Mounted
            /\ last'.err.code \in ListedSendCodes) =>
          /\ MessageCategory(error') = TaxonomyCategory(last'.err.code)
          /\ \A c \in ListedSendCodes \ {last'.err.code} :
                 error' # sendErrorMessage([code |-> c, message |-> RawMessage])
      ]_vars

\* the provider codes the taxonomy names, for requestCode and confirmCode
NamedCodes ==
    ListedSendCodes \cup {"auth/invalid-verification-code", "auth/code-expired"}

\* C14: when requestCode or confirmCode fails with a provider error whose code
\* the taxonomy does not name, the message shown is the provider's raw error
\* message.
C14_UnknownShowsRawMessage ==
    [][ (last'.ev \in {"requestCodeFail", "confirmFail"} /\ Mounted
            /\ last'.err.code \notin NamedCodes) =>
          error' = last'.err.message ]_vars

\* C14 for confirmCode alone
C14_ConfirmUnknownShowsRawMessage ==
    [][ (last'.ev = "confirmFail" /\ Mounted
            /\ last'.err.code \notin NamedCodes) =>
          error' = last'.err.message ]_vars

\* C15: each confirmation handle is passed to confirm at most once; no step
\* passes to confirm a handle that was passed to it before.
C15_HandleUsedOnce == ~last.again

\* C15 as amended: a handle whose confirm failed may be passed to confirm
\* again, but once confirm has succeeded on a handle that handle is never
\* passed to confirm again.
C15_NoSubmitAfterSuccess ==
    [][ (last'.ev = "verifyOtp" /\ ops' # ops) =>
          confirmationResult \notin last.done ]_vars

\* a confirm has succeeded on a handle that was submitted and is still stored
C15_Witness ==
    /\ last.ev = "confirmOk"
    /\ last.h \in last.used
    /\ last.h \in last.done
    /\ confirmationResult = last.h

\* a handle is passed to confirm a second time, after its first confirm failed
C15_WitnessRetry ==
    /\ last.ev = "verifyOtp"
    /\ last.again
    /\ InFlight = 1

\* C16: once the component is unmounted no challenge handle is live, also when
\* the unmount happens during the delay before the request or while the
\* request is awaited.
C16_NoLiveChallengeAfterUnmount == unmounted => liveChallenges = {}

\* C17: when the verifier's constructor throws during a send, that send makes
\* no requestCode call, the flow is back in Idle showing a challenge-setup
\* failure message, no verifier is stored, and a later successful setup builds
\* a verifier distinct from every earlier one still around.
C17_SetupFailureEndsAttempt ==
    [][ /\ (last'.err = SetupError /\ Mounted) =>
              /\ last'.ev = "setupThrew"
              /\ State' = "Idle"
              /\ MessageCategory(error') = "ChallengeSetupFailed"
              /\ recaptchaVerifier' = NULL
        /\ (last'.ev = "requestCode" /\ last'.err = NULL) =>
              /\ last'.h \notin liveChallenges \cup {recaptchaVerifier}
              /\ recaptchaVerifier' = last'.h ]_vars

\* C18: provided every external call returns, every Sending state of the
\* rendered flow is followed by Idle or AwaitingCode and every Verifying state
\* by AwaitingCode or Authenticated, in both cases with loading cleared.
C18_AttemptsEnd ==
    /\ (Mounted /\ State = "Sending")
          ~> (~Mounted \/ (State \in {"Idle", "AwaitingCode"} /\ ~loading))
    /\ (Mounted /\ State = "Verifying")
          ~> (~Mounted \/ (State \in {"AwaitingCode", "Authenticated"} /\ ~loading))

\* provided every external call returns, loading does not stay set
C18_LoadingCleared == (Mounted /\ loading) ~> (~Mounted \/ ~loading)

\* C19: App's loading flag is true at the start, every emission of the session
\* stream leaves it false, nothing else changes it and nothing sets it again;
\* while it is true the phone-auth component is not rendered, so none of its
\* handlers has run and its state is the initial one.
C19_LoadingUntilFirstEmission ==
    /\ appLoading = TRUE
    /\ [][ /\ (last'.ev = "authStateChanged" => ~appLoading')
           /\ (last'.ev # "authStateChanged" => appLoading' = appLoading)
           /\ (~appLoading => ~appLoading')
           /\ (appLoading' =>
                  /\ ~Mounted'
                  /\ last'.ev = "unmount"
                  /\ ops' = EmptyBag
                  /\ recaptchaVerifier' = NULL
                  /\ rs' = <<EmptyStr, EmptyStr, NULL, NULL, FALSE, "">>) ]_vars

\* a later emission: the stream emits after the phone form was already used
C19_Witness ==
    /\ last.ev = "authStateChanged"
    /\ ~appLoading
    /\ confirmationResult # NULL

\* C20: every code passed to confirm is a string of exactly 6 decimal digits,
\* whatever was typed into the code field and however often Verify was clicked.
C20_ConfirmedCodesAreSixDigits ==
    \A op \in BagToSet(ops) :
        op.kind = "confirm" =>
            /\ Len(op.code) = 6
            /\ \A i \in 1..Len(op.code) : op.code[i] \in Digits

\* a code typed into the field has been passed to confirm
C20_Witness ==
    /\ last.ev = "verifyOtp"
    /\ \E op \in BagToSet(ops) : op.kind = "confirm" /\ op.code = otp

====
